---- MODULE Spec2Model ----
(***************************************************************************)
(* State-machine model of the protocol-adaptation layer of the web UI:     *)
(* the streaming decoders of ollamaService.generateCompletion (all the     *)
(* iterations of the service kept in the repository) and the model-listing *)
(* call ollamaService.getModels.                                           *)
(*                                                                         *)
(* Text is a sequence of one-character strings.  A response body is a      *)
(* sequence of bytes; every ASCII byte is written as its character, and    *)
(* the two bytes of the UTF-8 encoding of U+00E9 are written "C3" "A9".    *)
(* A JSON object is written in a reduced syntax that keeps what the        *)
(* decoders look at:                                                       *)
(*     {mhi!}  stands for {"message":{"content":"hi"},"done":true}          *)
(*     {rhi}   stands for {"response":"hi"}                                 *)
(*     {chi}   stands for {"choices":[{"delta":{"content":"hi"}}]}          *)
(*     {x}     stands for an object with none of the known fields          *)
(* i.e. "{", one field tag, content letters, an optional "!" for           *)
(* "done":true, and "}".                                                   *)
(***************************************************************************)
EXTENDS Integers, Sequences, FiniteSets, TLC

VARIABLES
    call,          \* which operation of ollamaService this behaviour runs
    variant,       \* which iteration of the service is built
    pc,            \* position of the async function
    attempt,       \* index into endpointsToTry (multi-endpoint variant)
    requests,      \* endpoints requested so far, in order
    stream,        \* bytes of the response body being read; in getModels the shape of the last answer
    pos,           \* number of bytes of stream already returned by reader.read()
    pending,       \* bytes held back by TextDecoder (stream: true)
    buffer,        \* let buffer
    fullResponse,  \* let fullResponse
    delivered,     \* arguments of the onProgress calls so far, in call order
    warnings,      \* number of console.warn calls
    released,      \* number of reader.releaseLock() calls
    result,        \* settlement of the returned promise
    lastScan,      \* the buffer scanned by the last read iteration and where its parse failed
    sentinelAt,    \* Len(delivered) when the [DONE] sentinel was first seen, -1 before
    failedAt,      \* Len(delivered) when reader.read() first rejected, -1 before
    readFailures,  \* number of reader.read() rejections so far
    mockPos,       \* let i of the mock streaming loop
    responseOk,    \* response.ok of the answer being read
    router,        \* the proxy server: its configuration and the request it handles
    calls,         \* the locals of the generateCompletion calls that run side by side
    chat           \* the Chat component: its React state and the handleSubmit that runs

vars == <<call, variant, pc, attempt, requests, stream, pos, pending, buffer,
          fullResponse, delivered, warnings, released, result, lastScan,
          sentinelAt, failedAt, readFailures, mockPos, responseOk, router, calls, chat>>

\* the state of the single call of ollamaService
serviceVars == <<call, variant, pc, attempt, requests, stream, pos, pending, buffer,
                 fullResponse, delivered, warnings, released, result, lastScan,
                 sentinelAt, failedAt, readFailures, mockPos, responseOk>>

-----------------------------------------------------------------------------
(* Bounds                                                                  *)

\* number of framing units a single-endpoint response body is built from
MaxUnits == 3
\* number of framing units of a response body in the multi-endpoint variant
MaxUnitsMulti == 1
\* number of stream failures the network produces during one call
MaxReadFailures == 1
\* length of the text generateMockCompletion returns
MockLen == 12
\* number of framing units of the body of a non-2xx answer
MaxErrorUnits == 1

-----------------------------------------------------------------------------
(* JavaScript string primitives, 0-based as in the source                  *)

NL == "\n"
SP == " "

Min(a, b) == IF a < b THEN a ELSE b
Max(a, b) == IF a > b THEN a ELSE b

\* String.prototype.substring(start, end)
Substring(s, start, end) ==
    LET a == Min(Max(Min(start, end), 0), Len(s))
        b == Min(Max(Max(start, end), 0), Len(s))
    IN  SubSeq(s, a + 1, b)

\* String.prototype.substring(start) and slice(start) for start >= 0
SubstringFrom(s, start) == Substring(s, start, Len(s))

\* String.prototype.startsWith(pat)
StartsWith(s, pat) == Len(s) >= Len(pat) /\ SubSeq(s, 1, Len(pat)) = pat

\* String.prototype.indexOf(pat, from): least 0-based index >= from, or -1
IndexOf(s, pat, from) ==
    LET hits == { i \in Max(from, 0)..(Len(s) - Len(pat)) :
                      SubSeq(s, i + 1, i + Len(pat)) = pat }
    IN  IF hits = {} THEN -1 ELSE CHOOSE i \in hits : \A j \in hits : i <= j

IsSpace(ch) == ch \in {SP, NL}

\* String.prototype.trim()
Trim(s) ==
    LET keep == { i \in 1..Len(s) : ~IsSpace(s[i]) }
    IN  IF keep = {} THEN <<>>
        ELSE SubSeq(s, CHOOSE i \in keep : \A j \in keep : i <= j,
                       CHOOSE i \in keep : \A j \in keep : i >= j)

-----------------------------------------------------------------------------
(* TextDecoder.decode(value, {stream: true}) for UTF-8                     *)

Lead == "C3"
Cont == "A9"
EAcute == "e'"
Replacement == "?"

RECURSIVE DecodeFrom(_, _, _, _)
DecodeFrom(bytes, i, held, out) ==
    IF i > Len(bytes) THEN [text |-> out, pending |-> held]
    ELSE LET b == bytes[i] IN
         IF held = <<Lead>>
         THEN IF b = Cont
              THEN DecodeFrom(bytes, i + 1, <<>>, Append(out, EAcute))
              ELSE DecodeFrom(bytes, i, <<>>, Append(out, Replacement))
         ELSE IF b = Lead THEN DecodeFrom(bytes, i + 1, <<Lead>>, out)
         ELSE IF b = Cont THEN DecodeFrom(bytes, i + 1, <<>>, Append(out, Replacement))
         ELSE DecodeFrom(bytes, i + 1, <<>>, Append(out, b))

\* the decoder keeps an incomplete sequence until the next call
decode(held, value) == DecodeFrom(value, 1, held, <<>>)

-----------------------------------------------------------------------------
(* JSON.parse on the reduced syntax                                        *)

FieldTags == {"m", "r", "c", "x"}
Letters == {"h", "i", EAcute}

\* JSON.parse(text) does not throw
CanParse(text) ==
    /\ Len(text) >= 3
    /\ text[1] = "{"
    /\ text[Len(text)] = "}"
    /\ text[2] \in FieldTags
    /\ \A i \in 3..(Len(text) - 1) :
          \/ text[i] \in Letters
          \/ text[i] = "!" /\ i = Len(text) - 1

\* the value JSON.parse(text) returns
Parse(text) ==
    LET hasDone == text[Len(text) - 1] = "!"
        last    == IF hasDone THEN Len(text) - 2 ELSE Len(text) - 1
    IN  [tag |-> text[2], content |-> SubSeq(text, 3, last), done |-> hasDone]

-----------------------------------------------------------------------------
(* Decoder state threaded through one read iteration                       *)

\* the locals of generateCompletion a scan reads and writes, with the calls it makes
DecoderState(buf, full, del, warn, sent) ==
    [buffer |-> buf, fullResponse |-> full, delivered |-> del,
     warnings |-> warn, sentinelAt |-> sent]

\* the adapted ChatResponse object built by the content-adapting variants
adaptedResponse(content, done) == [tag |-> "m", content |-> content, done |-> done]

\* onProgress(parsed); if (parsed.message?.content) fullResponse += parsed.message.content
ForwardParsed(d, parsed) ==
    [d EXCEPT !.delivered = Append(@, parsed),
              !.fullResponse = IF parsed.tag = "m" /\ parsed.content # <<>>
                               THEN @ \o parsed.content ELSE @]

\* native chat variant: a chunk only for a message with non-empty content
AdaptChat(d, parsed) ==
    IF parsed.tag = "m" /\ parsed.content # <<>>
    THEN [d EXCEPT !.fullResponse = @ \o parsed.content,
                   !.delivered = Append(@, adaptedResponse(parsed.content, parsed.done))]
    ELSE d

\* native generate variant: a chunk only for a non-empty parsed.response
AdaptGenerate(d, parsed) ==
    IF parsed.tag = "r" /\ parsed.content # <<>>
    THEN [d EXCEPT !.fullResponse = @ \o parsed.content,
                   !.delivered = Append(@, adaptedResponse(parsed.content, parsed.done))]
    ELSE d

\* what each variant does with a line JSON.parse accepted
HandleParsed(v, d, parsed) ==
    CASE v = "chat"     -> AdaptChat(d, parsed)
      [] v = "generate" -> AdaptGenerate(d, parsed)
      [] OTHER          -> ForwardParsed(d, parsed)

\* while ((endIndex = buffer.indexOf('\n', startIndex)) !== -1) { ... }
\* returns the locals at loop exit; failAt is startIndex at the break, -1 without one
RECURSIVE ScanLines(_, _, _)
ScanLines(v, d, startIndex) ==
    LET endIndex == IndexOf(d.buffer, <<NL>>, startIndex) IN
    IF endIndex = -1
    THEN [d |-> d, startIndex |-> startIndex, failAt |-> -1]
    ELSE LET jsonLine == Trim(Substring(d.buffer, startIndex, endIndex)) IN
         IF jsonLine # <<>>
         THEN IF CanParse(jsonLine)
              THEN ScanLines(v, HandleParsed(v, d, Parse(jsonLine)), endIndex + 1)
              ELSE [d |-> [d EXCEPT !.buffer = SubstringFrom(@, startIndex)],
                    startIndex |-> startIndex, failAt |-> startIndex]
         ELSE ScanLines(v, d, endIndex + 1)

KeepRemaining_Whole(d, startIndex) == d
\* if (startIndex < buffer.length) buffer = buffer.substring(startIndex) else buffer = ''
KeepRemaining(d, startIndex) ==
    [d EXCEPT !.buffer = IF startIndex < Len(@) THEN SubstringFrom(@, startIndex) ELSE <<>>]

\* one iteration of the NDJSON read loop on the decoded chunk
ReadNdjson(v, d, chunk) ==
    LET d0 == [d EXCEPT !.buffer = @ \o chunk]
        r  == ScanLines(v, d0, 0)
    IN  [d |-> KeepRemaining(r.d, r.startIndex),
         scan |-> [buf |-> d0.buffer, failAt |-> r.failAt]]

\* TailNdjson without its try/catch: whatever is left is handed to the callback
TailNdjson_NoCatch(d) ==
    IF Trim(d.buffer) # <<>>
    THEN ForwardParsed(d, Parse(Trim(d.buffer)))
    ELSE d

\* "Process any remaining data in the buffer" of the forwarding variants
TailNdjson(d) ==
    IF Trim(d.buffer) # <<>>
    THEN IF CanParse(Trim(d.buffer))
         THEN ForwardParsed(d, Parse(Trim(d.buffer)))
         ELSE [d EXCEPT !.warnings = @ + 1]
    ELSE d

\* "Signal completion": onProgress({message: {role, content: ''}, done: true})
SignalCompletion(d) ==
    [d EXCEPT !.delivered = Append(@, adaptedResponse(<<>>, TRUE))]

-----------------------------------------------------------------------------
(* Server-Sent-Events decoder of the OpenAI-compatible variant             *)

DataMarker == <<"d", "a", "t", "a", ":", SP>>
DoneSentinel == <<"[", "D", "O", "N", "E", "]">>
\* startIndex = dataIndex + 6
MarkerLen == 6

\* the first time the sentinel is seen, remember how many chunks were delivered
NoteSentinel(d) ==
    [d EXCEPT !.sentinelAt = IF @ = -1 THEN Len(d.delivered) ELSE @]

\* body of the try block: parse the payload, adapt choices[0].delta.content
HandleSseMessage(d, sseMessage) ==
    IF sseMessage = <<>> THEN d
    ELSE IF ~CanParse(sseMessage) THEN [d EXCEPT !.warnings = @ + 1]
    ELSE LET parsed == Parse(sseMessage) IN
         IF parsed.tag = "c" /\ parsed.content # <<>>
         THEN [d EXCEPT !.fullResponse = @ \o parsed.content,
                        !.delivered = Append(@, adaptedResponse(parsed.content, FALSE))]
         ELSE d

\* while (true) { dataIndex = buffer.indexOf('data: ', startIndex); ... }
\* returns the locals at loop exit
RECURSIVE ScanSse(_, _)
ScanSse(d, startIndex) ==
    LET dataIndex == IndexOf(d.buffer, DataMarker, startIndex) IN
    IF dataIndex = -1 THEN [d |-> d, startIndex |-> startIndex]
    ELSE LET afterMarker == dataIndex + MarkerLen
             endIndex    == IndexOf(d.buffer, <<NL>>, afterMarker)
         IN  IF endIndex = -1 THEN [d |-> d, startIndex |-> afterMarker]
             ELSE LET sseMessage == Trim(Substring(d.buffer, afterMarker, endIndex)) IN
                  IF sseMessage = DoneSentinel
                  THEN ScanSse(NoteSentinel(d), endIndex + 1)
                  ELSE ScanSse(HandleSseMessage(d, sseMessage), endIndex + 1)

\* one iteration of the SSE read loop on the decoded chunk
ReadSse(d, chunk) ==
    LET d0 == [d EXCEPT !.buffer = @ \o chunk]
        r  == ScanSse(d0, 0)
    IN  [d |-> KeepRemaining(r.d, r.startIndex),
         scan |-> [buf |-> d0.buffer, failAt |-> -1]]

-----------------------------------------------------------------------------
(* OpenAI branch of the multi-endpoint variant                             *)

\* jsonStr.slice(5)
SliceLen == 5

\* const processOpenAIChunk = (jsonStr) => { ... }
processOpenAIChunk(d, line) ==
    LET jsonStr == IF StartsWith(line, DataMarker)
                   THEN Trim(SubstringFrom(line, SliceLen)) ELSE line
    IN  IF jsonStr = DoneSentinel THEN NoteSentinel(d)
        ELSE IF ~CanParse(jsonStr) THEN d
        ELSE LET parsed == Parse(jsonStr) IN
             IF parsed.tag = "c" /\ parsed.content # <<>>
             THEN [d EXCEPT !.fullResponse = @ \o parsed.content,
                            !.delivered = Append(@, adaptedResponse(parsed.content, FALSE))]
             ELSE d

\* while ((endIndex = buffer.indexOf('\n', startIndex)) !== -1) { if (line) processOpenAIChunk(line) }
RECURSIVE ScanOpenAI(_, _)
ScanOpenAI(d, startIndex) ==
    LET endIndex == IndexOf(d.buffer, <<NL>>, startIndex) IN
    IF endIndex = -1 THEN [d |-> d, startIndex |-> startIndex]
    ELSE LET line == Trim(Substring(d.buffer, startIndex, endIndex)) IN
         ScanOpenAI(IF line # <<>> THEN processOpenAIChunk(d, line) ELSE d, endIndex + 1)

\* one iteration of the read loop when isOpenAICompatible
ReadOpenAI(d, chunk) ==
    LET d0 == [d EXCEPT !.buffer = @ \o chunk]
        r  == ScanOpenAI(d0, 0)
    IN  [d |-> KeepRemaining(r.d, r.startIndex),
         scan |-> [buf |-> d0.buffer, failAt |-> -1]]

\* "Process any remaining data in the buffer" when isOpenAICompatible:
\* the content is added to fullResponse, onProgress is not called
TailOpenAI(d) ==
    IF Trim(d.buffer) = <<>> THEN d
    ELSE LET buf == IF StartsWith(d.buffer, DataMarker)
                    THEN Trim(SubstringFrom(d.buffer, SliceLen)) ELSE d.buffer
         IN  IF buf = DoneSentinel THEN NoteSentinel(d)
             ELSE IF ~CanParse(Trim(buf)) THEN [d EXCEPT !.warnings = @ + 1]
             ELSE LET parsed == Parse(Trim(buf)) IN
                  IF parsed.tag = "c" /\ parsed.content # <<>>
                  THEN [d EXCEPT !.fullResponse = @ \o parsed.content]
                  ELSE d

-----------------------------------------------------------------------------
(* Response bodies the backend can send                                    *)

Line(text) == text \o <<NL>>
Data(payload) == DataMarker \o payload \o <<NL>>

\* framing units of a newline-delimited JSON body
NdjsonUnits ==
    { Line(<<"{", "m", "h", "}">>),             \* a line with content
      Line(<<"{", "m", Lead, Cont, "}">>),      \* a line whose content is a two-byte character
      Line(<<"{", "m", "!", "}">>),             \* the closing line: empty content, done
      Line(<<"{", "x", "}">>),                  \* an object with no known field
      Line(<<"{", "m">>),                       \* a line that is not JSON
      <<"{", "m", "i", "}">>,                   \* an object without its newline
      <<NL>> }                                  \* an empty line

\* framing units of a body of the native generate endpoint
GenerateUnits ==
    { Line(<<"{", "r", "h", "}">>),             \* a line with a response text
      Line(<<"{", "r", "i", "!", "}">>),        \* a line with a response text and done
      Line(<<"{", "r", "!", "}">>),             \* the closing line: empty response, done
      Line(<<"{", "x", "}">>),                  \* an object with no known field
      Line(<<"{", "r">>),                       \* a line that is not JSON
      <<"{", "r", "i", "}">>,                   \* an object without its newline
      <<NL>> }                                  \* an empty line

\* framing units of a Server-Sent-Events body
SseUnits ==
    { Data(<<"{", "c", "h", "}">>),             \* a delta with content
      Data(<<"{", "c", "}">>),                  \* a delta with empty content
      Data(DoneSentinel),                       \* the sentinel
      Data(<<"{", "c">>),                       \* a payload that is not JSON
      <<NL>> }                                  \* the blank line between events

\* units of the bodies answered to the multi-endpoint variant
MultiNdjsonUnits ==
    { Line(<<"{", "m", "h", "}">>), Line(<<"{", "m">>), <<"{", "m", "i", "}">> }
MultiSseUnits ==
    { Data(<<"{", "c", "h", "}">>), Data(DoneSentinel), DataMarker \o <<"{", "c", "i", "}">> }

RECURSIVE Flatten(_)
Flatten(units) == IF units = <<>> THEN <<>> ELSE Head(units) \o Flatten(Tail(units))

\* every body made of at most n units
Bodies(units, n) == { Flatten(us) : us \in UNION { [1..k -> units] : k \in 0..n } }

-----------------------------------------------------------------------------
(* Endpoints, as sequences of path segments                                *)

endpointsToTry ==
    << <<"api", "chat">>, <<"v1", "chat", "completions">>,
       <<"ollama", "api", "chat">>, <<"chat">> >>

\* endpoint.includes('/v1/')
isOpenAICompatible(endpoint) ==
    \E i \in 1..(Len(endpoint) - 1) : endpoint[i] = "v1"

GenVariants == {"raw", "sse", "chat", "generate", "fallbackUrl", "multi"}
ModelsVariants == {"plain", "mockModels", "rethrow"}

\* the endpoint the current request goes to
Endpoint(v, k) ==
    CASE v = "raw"         -> <<"chat">>
      [] v = "sse"         -> <<"v1", "chat", "completions">>
      [] v = "chat"        -> <<"api", "chat">>
      [] v = "generate"    -> <<"api", "generate">>
      [] v = "fallbackUrl" -> <<"api", "chat">>
      [] v = "multi"       -> endpointsToTry[k]

UsesSse(v, k) == v = "sse" \/ (v = "multi" /\ isOpenAICompatible(endpointsToTry[k]))

\* units of the body of a non-2xx answer: a JSON error object, with or without newline
ErrorUnits == { Line(<<"{", "x", "}">>), <<"{", "x", "}">> }
ErrorBodies == Bodies(ErrorUnits, MaxErrorUnits)

BodiesFor(v, k) ==
    CASE v = "sse"   -> Bodies(SseUnits, MaxUnits)
      [] v = "generate" -> Bodies(GenerateUnits, MaxUnits)
      [] v = "multi" -> IF UsesSse(v, k) THEN Bodies(MultiSseUnits, MaxUnitsMulti)
                        ELSE Bodies(MultiNdjsonUnits, MaxUnitsMulti)
      [] OTHER       -> Bodies(NdjsonUnits, MaxUnits)

-----------------------------------------------------------------------------
(* Canned texts of the fallback iterations                                 *)

\* const chunkSize = 10
chunkSize == 10
\* generateMockCompletion(messages)
mockResponse == [i \in 1..MockLen |-> "~"]
\* the default message returned when the streaming request failed
Apology == <<"I'm sorry, but I encountered an error connecting to the language model service.">>
\* fullResponse || 'Sorry, I was unable to generate a response.'
Unable == <<"Sorry, I was unable to generate a response.">>
\* getMockModels()
getMockModels == <<"llama2", "mistral", "gemma", "codellama">>
\* the models a backend answer lists
BackendModels == <<"backend-model">>
\* response.data.models of an answer without a models field
Undefined == <<"undefined">>

Pending == [status |-> "pending", value |-> <<>>]
Resolved(v) == [status |-> "resolved", value |-> v]
Rejected == [status |-> "rejected", value |-> <<>>]
\* a promise rejected with a known error object
RejectedWith(error) == [status |-> "rejected", value |-> <<error>>]
\* the error of the request to /api/tags and the error of the fallback request
TagsError == "originalError"
FallbackError == "fallbackError"

Rethrown_Fallback(error, fallbackError) == fallbackError
\* catch (fallbackError) { throw error }
Rethrown(error, fallbackError) == error

-----------------------------------------------------------------------------
(* generateCompletion with an onProgress callback                          *)

Decoder == DecoderState(buffer, fullResponse, delivered, warnings, sentinelAt)

Install(d) ==
    /\ buffer' = d.buffer
    /\ fullResponse' = d.fullResponse
    /\ delivered' = d.delivered
    /\ warnings' = d.warnings
    /\ sentinelAt' = d.sentinelAt

NoScan == [buf |-> <<>>, failAt |-> -1]

\* the proxy server is not part of a behaviour of the service
NoRouter == [phase |-> "off"]
\* no calls run side by side
NoCalls == <<>>
\* the Chat component is not rendered
NoChat == [phase |-> "unmounted"]

Init ==
    /\ \/ call = "generateCompletion" /\ variant \in GenVariants
       \/ call = "generateCompletionNoProgress" /\ variant = "multi"
       \/ call = "getModels" /\ variant \in ModelsVariants
    /\ pc = "fetch"
    /\ attempt = 1
    /\ requests = <<>>
    /\ stream = <<>>
    /\ pos = 0
    /\ pending = <<>>
    /\ buffer = <<>>
    /\ fullResponse = <<>>
    /\ delivered = <<>>
    /\ warnings = 0
    /\ released = 0
    /\ result = Pending
    /\ lastScan = NoScan
    /\ sentinelAt = -1
    /\ failedAt = -1
    /\ readFailures = 0
    /\ mockPos = 0
    /\ responseOk = TRUE
    /\ router = NoRouter
    /\ calls = NoCalls
    /\ chat = NoChat

NextEndpoint_Skip ==
    IF attempt < Len(endpointsToTry)
    THEN /\ attempt' = IF attempt = 1 THEN 3 ELSE attempt + 1
         /\ pc' = "fetch"
         /\ UNCHANGED <<result, mockPos>>
    ELSE /\ pc' = "mock"
         /\ mockPos' = 0
         /\ UNCHANGED <<attempt, result>>

\* the multi-endpoint loop moves on: next endpoint, or the mock response after the last
NextEndpoint ==
    IF attempt < Len(endpointsToTry)
    THEN /\ attempt' = attempt + 1
         /\ pc' = "fetch"
         /\ UNCHANGED <<result, mockPos>>
    ELSE /\ pc' = "mock"
         /\ mockPos' = 0
         /\ UNCHANGED <<attempt, result>>

\* what a failure before or during the stream does to the call
Fail ==
    CASE variant = "multi"       -> NextEndpoint
      [] variant = "fallbackUrl" -> /\ pc' = "done"
                                    /\ result' = Resolved(Apology)
                                    /\ UNCHANGED <<attempt, mockPos>>
      [] OTHER                   -> /\ pc' = "done"
                                    /\ result' = Rejected
                                    /\ UNCHANGED <<attempt, mockPos>>

\* await fetch(url, ...) rejects, answers a non-2xx status, or has no body
FetchFails ==
    /\ call = "generateCompletion"
    /\ pc = "fetch"
    /\ requests' = Append(requests, Endpoint(variant, attempt))
    /\ Fail
    /\ UNCHANGED <<call, variant, stream, pos, pending, buffer, fullResponse, delivered,
                   warnings, released, lastScan, sentinelAt, failedAt, readFailures,
                   responseOk, router, calls, chat>>

\* the iterations that read the body without looking at response.ok
IgnoresStatus(v) == v = "raw"

\* await fetch(url, ...) answers with a body; the first iteration never looks at
\* response.ok, so an error answer is read like any other
FetchBody ==
    /\ call = "generateCompletion"
    /\ pc = "fetch"
    /\ requests' = Append(requests, Endpoint(variant, attempt))
    /\ \/ /\ responseOk' = TRUE
          /\ \E body \in BodiesFor(variant, attempt) : stream' = body
       \/ /\ IgnoresStatus(variant)
          /\ responseOk' = FALSE
          /\ \E body \in ErrorBodies : stream' = body
    /\ pos' = 0
    /\ pending' = <<>>
    /\ buffer' = <<>>
    /\ fullResponse' = <<>>
    /\ lastScan' = NoScan
    /\ pc' = "reading"
    /\ UNCHANGED <<call, variant, attempt, delivered, warnings, released, result,
                   sentinelAt, failedAt, readFailures, mockPos, router, calls, chat>>

\* the body of the read loop for the framing of the variant
ReadIteration(v, k, d, chunk) ==
    CASE v = "sse"     -> ReadSse(d, chunk)
      [] UsesSse(v, k) -> ReadOpenAI(d, chunk)
      [] OTHER         -> ReadNdjson(v, d, chunk)

\* what runs between the loop and the return
EndOfStream(v, k, d) ==
    CASE v \in {"sse", "chat", "generate"} -> SignalCompletion(d)
      [] UsesSse(v, k)                     -> TailOpenAI(d)
      [] OTHER                             -> TailNdjson(d)

\* the value of the return statement
ReturnValue(v, full) ==
    IF v = "fallbackUrl" /\ full = <<>> THEN Unable ELSE full

\* const { done, value } = await reader.read() with done = false
Read ==
    /\ call = "generateCompletion"
    /\ pc = "reading"
    /\ pos < Len(stream)
    /\ \E n \in 1..(Len(stream) - pos) :
          LET value == SubSeq(stream, pos + 1, pos + n)
              dec   == decode(pending, value)
              r     == ReadIteration(variant, attempt, Decoder, dec.text)
          IN  /\ pos' = pos + n
              /\ pending' = dec.pending
              /\ Install(r.d)
              /\ lastScan' = r.scan
    /\ UNCHANGED <<call, variant, pc, attempt, requests, stream, released, result,
                   failedAt, readFailures, mockPos,
                   responseOk, router, calls, chat>>

StreamDone_Ignored(p, s) == FALSE
\* const { done } = await reader.read(); if (done) break
StreamDone(p, s) == p = Len(s)

releaseLock_Skipped(n) == n
\* finally { reader.releaseLock() }
releaseLock(n) == n + 1

\* reader.read() answers done = true: tail handling, finally, return
ReadEnd ==
    /\ call = "generateCompletion"
    /\ pc = "reading"
    /\ StreamDone(pos, stream)
    /\ LET d == EndOfStream(variant, attempt, Decoder) IN
          /\ Install(d)
          /\ result' = Resolved(ReturnValue(variant, d.fullResponse))
    /\ released' = releaseLock(released)
    /\ pc' = "done"
    /\ UNCHANGED <<call, variant, attempt, requests, stream, pos, pending, lastScan,
                   failedAt, readFailures, mockPos,
                   responseOk, router, calls, chat>>

\* reader.read() rejects: catch, finally
ReadFail ==
    /\ call = "generateCompletion"
    /\ pc = "reading"
    /\ readFailures < MaxReadFailures
    /\ readFailures' = readFailures + 1
    /\ failedAt' = IF failedAt = -1 THEN Len(delivered) ELSE failedAt
    /\ released' = releaseLock(released)
    /\ Fail
    /\ UNCHANGED <<call, variant, requests, stream, pos, pending, buffer, fullResponse,
                   delivered, warnings, lastScan, sentinelAt,
                   responseOk, router, calls, chat>>

\* one round of the mock streaming loop: onProgress, then the 50 ms delay
MockChunk ==
    /\ call = "generateCompletion"
    /\ pc = "mock"
    /\ mockPos < Len(mockResponse)
    /\ delivered' = Append(delivered,
                           [tag |-> "m",
                            content |-> Substring(mockResponse, mockPos, mockPos + chunkSize),
                            done |-> mockPos + chunkSize >= Len(mockResponse)])
    /\ mockPos' = mockPos + chunkSize
    /\ UNCHANGED <<call, variant, pc, attempt, requests, stream, pos, pending, buffer,
                   fullResponse, warnings, released, result, lastScan, sentinelAt,
                   failedAt, readFailures,
                   responseOk, router, calls, chat>>

\* return mockResponse
MockReturn ==
    /\ call = "generateCompletion"
    /\ pc = "mock"
    /\ mockPos >= Len(mockResponse)
    /\ result' = Resolved(mockResponse)
    /\ pc' = "done"
    /\ UNCHANGED <<call, variant, attempt, requests, stream, pos, pending, buffer,
                   fullResponse, delivered, warnings, released, lastScan, sentinelAt,
                   failedAt, readFailures, mockPos,
                   responseOk, router, calls, chat>>

-----------------------------------------------------------------------------
(* getModels                                                               *)

\* shapes of the answer to GET /api/tags
TagsAnswers == {"models", "html", "array", "other", "error"}
\* shapes of the answer to GET /v1/models
AlternateAnswers == {"data", "other", "error"}

\* the first request and what the try block returns for its answer
GetTags ==
    /\ call = "getModels"
    /\ pc = "fetch"
    /\ requests' = Append(requests, <<"api", "tags">>)
    /\ \E answer \in TagsAnswers :
          /\ stream' = <<answer>>
          /\ CASE variant = "plain" ->
                    /\ pc' = "done"
                    /\ result' = CASE answer = "error"  -> Rejected
                                   [] answer = "models" -> Resolved(BackendModels)
                                   [] OTHER             -> Resolved(Undefined)
               [] variant = "rethrow" ->
                    CASE answer = "error"  -> pc' = "alternate" /\ result' = result
                      [] answer = "models" -> pc' = "done" /\ result' = Resolved(BackendModels)
                      [] OTHER             -> pc' = "done" /\ result' = Resolved(Undefined)
               [] OTHER ->
                    CASE answer = "error" -> pc' = "alternate" /\ result' = result
                      [] answer \in {"models", "array"} ->
                             pc' = "done" /\ result' = Resolved(BackendModels)
                      [] OTHER -> pc' = "done" /\ result' = Resolved(getMockModels)
    /\ UNCHANGED <<call, variant, attempt, pos, pending, buffer, fullResponse,
                   delivered, warnings, released, lastScan, sentinelAt, failedAt,
                   readFailures, mockPos,
                   responseOk, router, calls, chat>>

\* the request to the alternate endpoint made in the catch block
GetAlternate ==
    /\ call = "getModels"
    /\ pc = "alternate"
    /\ requests' = Append(requests, <<"v1", "models">>)
    /\ \E answer \in AlternateAnswers :
          /\ stream' = <<answer>>
          /\ result' = IF answer = "data" THEN Resolved(BackendModels)
                       ELSE IF variant = "rethrow"
                            THEN RejectedWith(Rethrown(TagsError, FallbackError))
                            ELSE Resolved(getMockModels)
    /\ pc' = "done"
    /\ UNCHANGED <<call, variant, attempt, pos, pending, buffer, fullResponse,
                   delivered, warnings, released, lastScan, sentinelAt, failedAt,
                   readFailures, mockPos,
                   responseOk, router, calls, chat>>

-----------------------------------------------------------------------------
(* generateCompletion without onProgress, multi-endpoint variant           *)

\* shapes of the answer to axios.post(url, payload)
PostAnswers == {"ollama", "openai", "string", "other", "error"}
\* the text a recognised answer carries
AnswerContent == <<"h">>

\* one round of "for (const endpoint of endpointsToTry)": the request, and the
\* return for a recognised answer; after the last endpoint the mock completion
Post ==
    /\ call = "generateCompletionNoProgress"
    /\ pc = "fetch"
    /\ requests' = Append(requests, endpointsToTry[attempt])
    /\ \E answer \in PostAnswers :
          IF answer \in {"ollama", "openai", "string"}
          THEN /\ pc' = "done"
               /\ result' = Resolved(AnswerContent)
               /\ UNCHANGED <<attempt, mockPos>>
          ELSE IF attempt < Len(endpointsToTry)
               THEN NextEndpoint
               ELSE /\ pc' = "done"
                    /\ result' = Resolved(mockResponse)
                    /\ UNCHANGED <<attempt, mockPos>>
    /\ UNCHANGED <<call, variant, stream, pos, pending, buffer, fullResponse,
                   delivered, warnings, released, lastScan, sentinelAt, failedAt,
                   readFailures, responseOk, router, calls, chat>>

-----------------------------------------------------------------------------

Next ==
    \/ FetchFails
    \/ FetchBody
    \/ Read
    \/ ReadEnd
    \/ ReadFail
    \/ MockChunk
    \/ MockReturn
    \/ GetTags
    \/ GetAlternate
    \/ Post

Spec == Init /\ [][Next]_vars

-----------------------------------------------------------------------------
(* Reference decodes used by the properties                                *)

Streaming == call = "generateCompletion"
Settled == pc = "done"
ResolvedNow == Settled /\ result.status = "resolved"
RejectedNow == Settled /\ result.status = "rejected"

FreshDecoder == DecoderState(<<>>, <<>>, <<>>, 0, -1)

\* the whole body arriving as one single chunk
OneShot(v, k, body) ==
    LET afterRead == IF body = <<>> THEN FreshDecoder
                     ELSE ReadIteration(v, k, FreshDecoder, decode(<<>>, body).text).d
    IN  EndOfStream(v, k, afterRead)

\* the lines of a text: the pieces that end with a newline, and the rest
RECURSIVE SplitLines(_, _)
SplitLines(text, from) ==
    LET nl == IndexOf(text, <<NL>>, from) IN
    IF nl = -1 THEN <<>>
    ELSE <<Substring(text, from, nl)>> \o SplitLines(text, nl + 1)

BodyText == decode(<<>>, stream).text
BodyLines == SelectSeq(SplitLines(BodyText, 0), LAMBDA l : Trim(l) # <<>>)

\* a newline-delimited JSON body: every line ends with a newline and is a JSON object
WellFormedNdjson ==
    /\ BodyText # <<>>
    /\ BodyText[Len(BodyText)] = NL
    /\ \A i \in 1..Len(BodyLines) : CanParse(Trim(BodyLines[i]))

\* message.content of a parsed line, '' when the line has none
MessageContent(line) ==
    LET parsed == Parse(Trim(line)) IN
    IF parsed.tag = "m" THEN parsed.content ELSE <<>>

RECURSIVE ConcatContent(_)
ConcatContent(lines) ==
    IF lines = <<>> THEN <<>>
    ELSE MessageContent(Head(lines)) \o ConcatContent(Tail(lines))

\* the chunks delivered, without the synthetic completion chunk of the adapting variants
DecodedChunks ==
    IF variant \in {"sse", "chat"} /\ delivered # <<>>
    THEN SubSeq(delivered, 1, Len(delivered) - 1) ELSE delivered

UnparsableTail == Trim(buffer) # <<>> /\ ~CanParse(Trim(buffer))

IsMockText(text) == text # <<>> /\ \A i \in 1..Len(text) : text[i] = "~"

-----------------------------------------------------------------------------
(* Properties                                                              *)

\* C1: the NDJSON decoder delivers the same chunks and returns the same string
\* for every way of splitting the body into network chunks as for the body
\* arriving in one single chunk.
C1_NdjsonChunkingIndependent ==
    (Streaming /\ variant = "raw" /\ ResolvedNow) =>
        /\ delivered = OneShot(variant, attempt, stream).delivered
        /\ result.value = OneShot(variant, attempt, stream).fullResponse

\* C2: the SSE decoder delivers the same chunks and returns the same string for
\* every way of splitting the body, also inside a data line, as for the body
\* arriving in one single chunk.
C2_SseChunkingIndependent ==
    (Streaming /\ variant = "sse" /\ ResolvedNow) =>
        /\ delivered = OneShot(variant, attempt, stream).delivered
        /\ result.value = OneShot(variant, attempt, stream).fullResponse

\* C3: for a well-formed NDJSON body of N lines the decoder delivers N chunks
\* (the synthetic completion chunk not counted), one per line in input order,
\* and returns the concatenation of the lines' content.
C3_OneChunkPerLine ==
    (Streaming /\ variant \in {"raw", "chat"} /\ ResolvedNow /\ WellFormedNdjson) =>
        /\ Len(DecodedChunks) = Len(BodyLines)
        /\ \A i \in 1..Len(DecodedChunks) :
              i <= Len(BodyLines) => DecodedChunks[i].content = MessageContent(BodyLines[i])
        /\ result.value = ConcatContent(BodyLines)

\* C4: a newline-terminated line that fails to parse is carried whole, with
\* every byte after it, into the next read iteration.
C4_FailedLineRetained ==
    (Streaming /\ lastScan.failAt # -1) =>
        buffer = SubstringFrom(lastScan.buf, lastScan.failAt)

\* C5: when reader.read() rejects after k chunks, the call rejects and the
\* caller holds exactly those k chunks; it does not resolve with a string.
C5_StreamFailureRejects ==
    (Streaming /\ variant \in {"raw", "fallbackUrl"} /\ failedAt # -1 /\ Settled) =>
        /\ result.status = "rejected"
        /\ Len(delivered) = failedAt

\* C6: once the [DONE] sentinel has been seen, no further chunk is delivered.
C6_NoChunkAfterSentinel ==
    (Streaming /\ variant = "sse" /\ sentinelAt # -1) => Len(delivered) = sentinelAt

\* C7: a chunk with done = true is delivered only when the [DONE] sentinel
\* has been received.
C7_DoneOnlyAtSentinel ==
    (Streaming /\ variant = "sse") =>
        ((\E i \in 1..Len(delivered) : delivered[i].done) => sentinelAt # -1)

\* C8: at end of stream an unparsable trailing buffer causes no onProgress call
\* and one warning, and the call resolves with the text accumulated so far.
C8_UnparsableTailNotFatal ==
    [][ (Streaming /\ variant = "raw" /\ pc = "reading" /\ pc' = "done"
           /\ readFailures' = readFailures /\ UnparsableTail)
        => /\ delivered' = delivered
           /\ warnings' = warnings + 1
           /\ result' = Resolved(fullResponse) ]_vars

\* C8 witness: a call that accumulated text resolved over an unparsable tail
C8_Witness ==
    /\ Streaming /\ variant = "raw" /\ ResolvedNow
    /\ UnparsableTail
    /\ warnings = 1
    /\ fullResponse # <<>>
    /\ result.value = fullResponse

\* C9: once reader.read() has rejected, no further chunk is delivered during
\* the call, in every streaming variant.
C9_NoChunkAfterFailure ==
    (Streaming /\ failedAt # -1) => Len(delivered) = failedAt

\* C10: neither operation returns or streams fabricated substitute content.
C10_NoFabricatedContent ==
    /\ result.value \notin {mockResponse, Apology, getMockModels}
    /\ \A i \in 1..Len(delivered) : ~IsMockText(delivered[i].content)

\* message.content of a delivered chunk, '' when the chunk has none
ChunkContent(chunk) == IF chunk.tag = "m" THEN chunk.content ELSE <<>>

RECURSIVE ConcatChunks(_)
ConcatChunks(chunks) ==
    IF chunks = <<>> THEN <<>>
    ELSE ChunkContent(Head(chunks)) \o ConcatChunks(Tail(chunks))

\* C11: when a streaming call resolves, the returned string is the
\* concatenation, in call order, of the message.content of every chunk
\* delivered to onProgress, in the single-endpoint decoder and in the
\* multi-endpoint variant.
C11_ResultIsConcatOfChunks ==
    (Streaming /\ variant \in {"raw", "multi"} /\ ResolvedNow) =>
        result.value = ConcatChunks(delivered)

\* C12: when the backend answers a streaming request with a non-2xx status the
\* call rejects without delivering any chunk; the error body is never decoded.
C12_ErrorStatusRejects ==
    (Streaming /\ ~responseOk) =>
        /\ delivered = <<>>
        /\ Settled => result.status = "rejected"

-----------------------------------------------------------------------------
(* The proxy server (server.js, unnamed/part_007)                          *)

\* most repeated /api prefixes of an inbound path
MaxDup == 3
\* most trailing slashes of the configured URL
MaxTrailing == 2

\* the characters of a path segment
Segment(w) ==
    CASE w = "api" -> <<"a", "p", "i">>
      [] w = "v1" -> <<"v", "1">>
      [] w = "tags" -> <<"t", "a", "g", "s">>
      [] w = "generate" -> <<"g", "e", "n", "e", "r", "a", "t", "e">>
      [] w = "chat" -> <<"c", "h", "a", "t">>
      [] w = "models" -> <<"m", "o", "d", "e", "l", "s">>
      [] w = "completions" -> <<"c", "o", "m", "p", "l", "e", "t", "i", "o", "n", "s">>
      [] w = "ollama" -> <<"o", "l", "l", "a", "m", "a">>
      [] w = "unknown" -> <<"u", "n", "k", "n", "o", "w", "n">>

Slash == <<"/">>

RECURSIVE PathOf(_)
\* "/" + segments joined by "/"
PathOf(segs) ==
    IF segs = <<>> THEN <<>> ELSE Slash \o Segment(Head(segs)) \o PathOf(Tail(segs))

RECURSIVE Repeat(_, _)
Repeat(s, n) == IF n = 0 THEN <<>> ELSE s \o Repeat(s, n - 1)

\* String.prototype.includes(pat)
Includes(s, pat) == IndexOf(s, pat, 0) # -1

\* String.prototype.endsWith(pat)
EndsWith(s, pat) == Len(s) >= Len(pat) /\ SubSeq(s, Len(s) - Len(pat) + 1, Len(s)) = pat

\* String.prototype.replace(pat, rep) with a string pattern: the first occurrence only
ReplaceFirst(s, pat, rep) ==
    LET i == IndexOf(s, pat, 0)
    IN  IF i = -1 THEN s ELSE Substring(s, 0, i) \o rep \o SubstringFrom(s, i + Len(pat))

\* String.prototype.replace(/^pat/, '')
ReplacePrefix(s, pat) == IF StartsWith(s, pat) THEN SubstringFrom(s, Len(pat)) ELSE s

ApiPrefix == PathOf(<<"api">>)
V1Prefix == PathOf(<<"v1">>)
OllamaPrefix == PathOf(<<"ollama">>)
ApiTags == PathOf(<<"api", "tags">>)
ApiGenerate == PathOf(<<"api", "generate">>)
ApiChat == PathOf(<<"api", "chat">>)
V1Models == PathOf(<<"v1", "models">>)
V1ChatCompletions == PathOf(<<"v1", "chat", "completions">>)
DuplicatePrefix == ApiPrefix \o ApiPrefix \o Slash

\* scheme and authority of the configured URL, as one unit
Origin == "https://host"

\* the path segments of VITE_OLLAMA_API_URL
BaseSegments == {<<>>, <<"api">>, <<"ollama">>, <<"ollama", "api">>}

\* values of VITE_OLLAMA_API_URL
ConfiguredUrls ==
    { <<Origin>> \o PathOf(b) \o Repeat(Slash, n) : b \in BaseSegments, n \in 0..MaxTrailing }

\* if (ollamaApiUrl.endsWith('/')) ollamaApiUrl = ollamaApiUrl.slice(0, -1)
StripTrailingSlash(url) ==
    IF EndsWith(url, Slash) THEN Substring(url, 0, Len(url) - 1) ELSE url

\* new URL(url).pathname: the path after the authority, "/" when there is none
Pathname(url) == IF Tail(url) = <<>> THEN Slash ELSE Tail(url)

\* apiBasePath !== '/' ? apiBasePath + strippedPath : strippedPath
newPath(apiBasePath, strippedPath) ==
    IF apiBasePath # Slash THEN apiBasePath \o strippedPath ELSE strippedPath

\* pathRewrite of the /api proxy, first iteration of server.js
pathRewriteExact(path, apiBasePath) ==
    IF path = ApiTags THEN ApiTags
    ELSE IF path = ApiGenerate THEN ApiGenerate
    ELSE IF path = ApiChat THEN ApiChat
    ELSE newPath(apiBasePath, ReplacePrefix(path, ApiPrefix))

\* pathRewrite of the /api proxy, second iteration of server.js
pathRewriteExactAuth(path, apiBasePath) ==
    IF path = ApiTags THEN ApiTags
    ELSE IF path = ApiGenerate THEN ApiGenerate
    ELSE newPath(apiBasePath, ReplacePrefix(path, ApiPrefix))

\* pathRewrite of the /api proxy of part_007
pathRewriteStrip(path, apiBasePath) == newPath(apiBasePath, ReplacePrefix(path, ApiPrefix))

DuplicatedPrefix_Single(path) == StartsWith(path, ApiPrefix \o Slash)
\* rule 1 applies: path.startsWith('/api/api/')
DuplicatedPrefix(path) == StartsWith(path, DuplicatePrefix)

CollapseDuplicate_Both(path) == ReplaceFirst(path, DuplicatePrefix, Slash)
\* rule 1: path.replace('/api/api/', '/api/')
CollapseDuplicate(path) == ReplaceFirst(path, DuplicatePrefix, ApiPrefix \o Slash)

\* which of the rules 1-4 of the rule-based pathRewrite returns
RuleOf(path, apiBasePath) ==
    IF DuplicatedPrefix(path) THEN 1
    ELSE IF Includes(apiBasePath, ApiPrefix) THEN 2
    ELSE IF ~Includes(path, OllamaPrefix) THEN 3
    ELSE 4

\* pathRewrite of the /api proxy, third iteration of server.js
pathRewriteRules(path, apiBasePath) ==
    CASE RuleOf(path, apiBasePath) = 1 -> CollapseDuplicate(path)
      [] RuleOf(path, apiBasePath) = 2 -> ReplaceFirst(path, ApiPrefix, <<>>)
      [] RuleOf(path, apiBasePath) = 3 -> OllamaPrefix \o path
      [] RuleOf(path, apiBasePath) = 4 -> path

\* pathRewrite of the /v1 proxy of server.js
pathRewriteV1(path, apiBasePath) ==
    IF path = V1ChatCompletions THEN V1ChatCompletions
    ELSE newPath(apiBasePath, ReplacePrefix(path, V1Prefix))

\* pathRewrite of the /v1 proxy of part_007
pathRewriteV1Strip(path, apiBasePath) == newPath(apiBasePath, ReplacePrefix(path, V1Prefix))

\* the iterations of the server
Servers == {"exact", "exactAuth", "rules", "strip"}
\* the iterations that install express.json() and express.urlencoded()
BodyParsing == {"exact", "exactAuth"}
\* the iterations that mount a /v1 proxy
V1Proxying == {"exact", "exactAuth", "strip"}

JsonType == "application/json"
FormType == "application/x-www-form-urlencoded"
TextType == "text/plain"
ContentTypes == {"none", JsonType, FormType, TextType}

\* req.body as onProxyReq sees it: the parsed object when a parser accepted the
\* body, otherwise what the installed body-parser leaves ({} or undefined)
reqBody(server, emptyBody, req) ==
    IF server \notin BodyParsing THEN "undefined"
    ELSE IF req.hasBody /\ req.contentType \in {JsonType, FormType} THEN "object"
    ELSE emptyBody

\* the Content-Type of the proxied request after onProxyReq
onProxyReq(server, emptyBody, req) ==
    IF reqBody(server, emptyBody, req) = "object" THEN JsonType ELSE req.contentType

\* the pathRewrite option of the /api proxy
pathRewrite(server, path, apiBasePath) ==
    CASE server = "exact" -> pathRewriteExact(path, apiBasePath)
      [] server = "exactAuth" -> pathRewriteExactAuth(path, apiBasePath)
      [] server = "rules" -> pathRewriteRules(path, apiBasePath)
      [] server = "strip" -> pathRewriteStrip(path, apiBasePath)

\* the pathRewrite option of the /v1 proxy
pathRewriteOpenAI(server, path, apiBasePath) ==
    IF server = "strip" THEN pathRewriteV1Strip(path, apiBasePath)
    ELSE pathRewriteV1(path, apiBasePath)

\* app.use(mount, ...) matches the mount path and everything below it
Mounted(path, mount) == path = mount \/ StartsWith(path, mount \o Slash)

\* what follows the repeated /api prefixes of an inbound path
Tails ==
    { <<>>, <<"tags">>, <<"generate">>, <<"chat">>, <<"unknown">>, <<"ollama", "tags">>,
      <<"v1", "models">>, <<"v1", "chat", "completions">> }

InboundPaths ==
    { PathOf(Repeat(<<"api">>, n) \o t) : n \in 0..MaxDup, t \in Tails } \ {<<>>}

\* inbound requests
Requests ==
    { [method |-> m, path |-> p, hasBody |-> b, contentType |-> c] :
        m \in {"GET", "POST"}, p \in InboundPaths, b \in BOOLEAN, c \in ContentTypes }

NoRequest == [method |-> "GET", path |-> <<>>, hasBody |-> FALSE, contentType |-> "none"]
NoOutbound == [sent |-> FALSE, path |-> <<>>, contentType |-> "none"]

\* the server before it has read its configuration
Configured(server, emptyBody, url) ==
    [phase |-> "config", server |-> server, emptyBody |-> emptyBody,
     ollamaApiUrl |-> url, apiBasePath |-> <<>>, request |-> NoRequest,
     outbound |-> NoOutbound, response |-> "none", rule |-> 0]

InitRouter ==
    /\ call = "server"
    /\ variant = "none"
    /\ pc = "idle"
    /\ attempt = 1
    /\ requests = <<>>
    /\ stream = <<>>
    /\ pos = 0
    /\ pending = <<>>
    /\ buffer = <<>>
    /\ fullResponse = <<>>
    /\ delivered = <<>>
    /\ warnings = 0
    /\ released = 0
    /\ result = Pending
    /\ lastScan = NoScan
    /\ sentinelAt = -1
    /\ failedAt = -1
    /\ readFailures = 0
    /\ mockPos = 0
    /\ responseOk = TRUE
    /\ calls = NoCalls
    /\ chat = NoChat
    /\ \E server \in Servers, url \in ConfiguredUrls :
         \E emptyBody \in IF server \in BodyParsing THEN {"object", "undefined"}
                          ELSE {"undefined"} :
             router = Configured(server, emptyBody, url)

\* module start: normalise the configured URL and derive the base path
StartServer ==
    /\ router.phase = "config"
    /\ LET url == StripTrailingSlash(router.ollamaApiUrl)
       IN  router' = [router EXCEPT !.phase = "listening",
                                    !.ollamaApiUrl = url,
                                    !.apiBasePath = Pathname(url)]
    /\ UNCHANGED <<serviceVars, calls, chat>>

\* a request below /api: rewritten, given its headers, and sent to the backend;
\* pathRewrite gets the path with its mount prefix, as its comparisons expect
ProxyApi ==
    /\ router.phase = "listening"
    /\ \E req \in Requests :
         /\ Mounted(req.path, ApiPrefix)
         /\ router' = [router EXCEPT
                !.phase = "handled",
                !.request = req,
                !.outbound = [sent |-> TRUE,
                              path |-> pathRewrite(router.server, req.path, router.apiBasePath),
                              contentType |-> onProxyReq(router.server, router.emptyBody, req)],
                !.response = "proxied",
                !.rule = IF router.server = "rules"
                         THEN RuleOf(req.path, router.apiBasePath) ELSE 0]
    /\ UNCHANGED <<serviceVars, calls, chat>>

\* a request below /v1 on a server that mounts the /v1 proxy
ProxyV1 ==
    /\ router.phase = "listening"
    /\ router.server \in V1Proxying
    /\ \E req \in Requests :
         /\ ~Mounted(req.path, ApiPrefix)
         /\ Mounted(req.path, V1Prefix)
         /\ router' = [router EXCEPT
                !.phase = "handled",
                !.request = req,
                !.outbound = [sent |-> TRUE,
                              path |-> pathRewriteOpenAI(router.server, req.path,
                                                         router.apiBasePath),
                              contentType |-> onProxyReq(router.server, router.emptyBody, req)],
                !.response = "proxied",
                !.rule = 0]
    /\ UNCHANGED <<serviceVars, calls, chat>>

\* any other request: express.static finds no asset, app.get('*') answers a GET
\* with index.html, and nothing answers another method
ServeIndex ==
    /\ router.phase = "listening"
    /\ \E req \in Requests :
         /\ ~Mounted(req.path, ApiPrefix)
         /\ ~(router.server \in V1Proxying /\ Mounted(req.path, V1Prefix))
         /\ router' = [router EXCEPT
                !.phase = "handled",
                !.request = req,
                !.outbound = NoOutbound,
                !.response = IF req.method = "GET" THEN "index.html" ELSE "404",
                !.rule = 0]
    /\ UNCHANGED <<serviceVars, calls, chat>>

\* the response has been written; the server waits for the next request
Responded ==
    /\ router.phase = "handled"
    /\ router' = [router EXCEPT !.phase = "listening", !.request = NoRequest,
                                !.outbound = NoOutbound, !.response = "none", !.rule = 0]
    /\ UNCHANGED <<serviceVars, calls, chat>>

NextRouter ==
    \/ StartServer
    \/ ProxyApi
    \/ ProxyV1
    \/ ServeIndex
    \/ Responded

SpecRouter == InitRouter /\ [][NextRouter]_vars

\* a request has been handled by the server
Handled == call = "server" /\ router.phase = "handled"
\* the request was forwarded by the /api proxy
ViaApi == Handled /\ Mounted(router.request.path, ApiPrefix)
\* the request was forwarded by the /v1 proxy
ViaV1 == Handled /\ router.outbound.sent /\ ~Mounted(router.request.path, ApiPrefix)

-----------------------------------------------------------------------------
(* Claims about the proxy server                                           *)

ApiApiTags == PathOf(<<"api", "api", "tags">>)
Tags == PathOf(<<"tags">>)

\* the rule-based server, base path /api, has handled the inbound path /api/api/tags
C13_Case ==
    /\ Handled
    /\ router.server = "rules"
    /\ router.apiBasePath = ApiPrefix
    /\ router.request.path = ApiApiTags

\* C13: in the rule-based /api proxy with base path /api, the inbound path
\* /api/api/tags is forwarded as /api/tags, and not as /api/api/tags or /tags
C13_RuleBasedCollapse ==
    C13_Case =>
        /\ router.outbound.sent
        /\ router.outbound.path = ApiTags
        /\ router.outbound.path \notin {ApiApiTags, Tags}

C13_Witness == C13_Case /\ router.outbound.path = ApiTags /\ router.rule = 1


\* C14: in the exact-match and the strip-and-prepend /api proxies with base path
\* /api, no forwarded path begins with /api/api/
C14_NoDuplicatedPrefix ==
    (ViaApi /\ router.server \in {"exact", "strip"} /\ router.apiBasePath = ApiPrefix) =>
        ~StartsWith(router.outbound.path, DuplicatePrefix)


ApiApiApiTags == PathOf(<<"api", "api", "api", "tags">>)

\* C15: rule 1 of the rule-based rewrite returns exactly for the paths that begin
\* with /api/api/, and removes one /api from the front and no more; in
\* particular /api/api/api/tags is forwarded as /api/api/tags
C15_CollapseOnce ==
    (ViaApi /\ router.server = "rules") =>
        /\ router.rule = 1 <=> StartsWith(router.request.path, DuplicatePrefix)
        /\ router.rule = 1 =>
               router.outbound.path = SubstringFrom(router.request.path, Len(ApiPrefix))
        /\ router.request.path = ApiApiApiTags => router.outbound.path = ApiApiTags

C15_Witness ==
    /\ ViaApi
    /\ router.server = "rules"
    /\ router.rule = 1
    /\ router.request.path = ApiApiApiTags
    /\ router.outbound.path = ApiApiTags


\* the paths of the logical endpoints: list-models, generate, chat-completion
LogicalEndpoints == {ApiTags, ApiGenerate, ApiChat, V1Models, V1ChatCompletions}

\* C16: a request for a path of no logical endpoint is answered with
\* UnsupportedEndpoint and nothing is sent to the backend
C16_UnsupportedEndpoint ==
    (Handled /\ router.request.path \notin LogicalEndpoints) =>
        /\ router.response = "UnsupportedEndpoint"
        /\ ~router.outbound.sent


\* the server has derived its base path
Started == call = "server" /\ router.phase # "config"

\* C17: the base path derived at server start does not end with a path separator
C17_BasePathNoTrailingSeparator ==
    Started => ~EndsWith(router.apiBasePath, Slash)


\* C18: the /v1 proxy forwards /v1/models as /v1/models and /v1/chat/completions
\* as /v1/chat/completions, whatever the base path
C18_V1Mirrored ==
    (Handled /\ router.server \in V1Proxying
            /\ router.request.path \in {V1Models, V1ChatCompletions}) =>
        /\ router.outbound.sent
        /\ router.outbound.path = router.request.path


\* C19: the /api proxy of the first server iteration changes the Content-Type
\* of a request only by setting application/json on a request that has a body
\* and no Content-Type; a Content-Type sent by the client is forwarded as it is
C19_ContentTypeOnlyWhenMissing ==
    (ViaApi /\ router.server = "exact") =>
        /\ router.request.contentType # "none" =>
               router.outbound.contentType = router.request.contentType
        /\ router.outbound.contentType # router.request.contentType =>
               /\ router.request.hasBody
               /\ router.request.contentType = "none"
               /\ router.outbound.contentType = JsonType

-----------------------------------------------------------------------------
(* Two generateCompletion calls side by side (ollamaService.ts)            *)

\* most framing units of a body answered to one of two concurrent calls
MaxUnitsPair == 2

\* the concurrent invocations
PairCalls == {1, 2}

\* framing units of the bodies answered to the concurrent calls
PairUnits ==
    { Line(<<"{", "m", Lead, Cont, "}">>),      \* a line whose content is a two-byte character
      Line(<<"{", "m">>),                       \* a line that is not JSON
      <<"{", "m", "i", "}">> }                  \* an object without its newline

PairBodies == Bodies(PairUnits, MaxUnitsPair)

Slot_Shared(c) == 1
\* where an invocation keeps decoder, fullResponse and buffer: they are declared
\* with const and let inside generateCompletion, one set per invocation
Slot(c) == c

\* const decoder = new TextDecoder(); let fullResponse = ''; let buffer = ''
FreshLocals == [pending |-> <<>>, buffer |-> <<>>, fullResponse |-> <<>>]

\* an invocation that has not yet got its response, with the decode of its
\* stream by a call that runs alone
NotStarted ==
    [pc |-> "fetch", stream |-> <<>>, pos |-> 0, delivered |-> <<>>, warnings |-> 0,
     released |-> 0, result |-> Pending,
     alone |-> [pending |-> <<>>, d |-> DecoderState(<<>>, <<>>, <<>>, 0, -1)]]

InitPair ==
    /\ call = "pair"
    /\ variant = "raw"
    /\ pc = "idle"
    /\ attempt = 1
    /\ requests = <<>>
    /\ stream = <<>>
    /\ pos = 0
    /\ pending = <<>>
    /\ buffer = <<>>
    /\ fullResponse = <<>>
    /\ delivered = <<>>
    /\ warnings = 0
    /\ released = 0
    /\ result = Pending
    /\ lastScan = NoScan
    /\ sentinelAt = -1
    /\ failedAt = -1
    /\ readFailures = 0
    /\ mockPos = 0
    /\ responseOk = TRUE
    /\ router = NoRouter
    /\ calls = [locals |-> [s \in PairCalls |-> FreshLocals],
                own |-> [c \in PairCalls |-> NotStarted],
                readFailures |-> 0]
    /\ chat = NoChat

\* the locals of invocation c as the decoder operators take them
LocalsOf(c) ==
    LET l == calls.locals[Slot(c)]
    IN  DecoderState(l.buffer, l.fullResponse, calls.own[c].delivered,
                     calls.own[c].warnings, -1)

\* store the outcome of a step of invocation c
StoreLocals(c, heldBytes, d, own) ==
    calls' = [calls EXCEPT
                !.locals[Slot(c)] = [pending |-> heldBytes, buffer |-> d.buffer,
                                     fullResponse |-> d.fullResponse],
                !.own[c] = [own EXCEPT !.delivered = d.delivered,
                                       !.warnings = d.warnings]]

\* await fetch(...) of invocation c answers; reader, decoder, fullResponse and
\* buffer are initialised
PairFetch ==
    /\ call = "pair"
    /\ \E c \in PairCalls :
         /\ calls.own[c].pc = "fetch"
         /\ \E body \in PairBodies :
              StoreLocals(c, <<>>, DecoderState(<<>>, <<>>, <<>>, 0, -1),
                          [calls.own[c] EXCEPT !.pc = "reading", !.stream = body])
    /\ UNCHANGED <<serviceVars, router, chat>>

\* one iteration of the read loop of invocation c
PairRead ==
    /\ call = "pair"
    /\ \E c \in PairCalls :
         LET own == calls.own[c] IN
         /\ own.pc = "reading"
         /\ own.pos < Len(own.stream)
         /\ \E n \in 1..(Len(own.stream) - own.pos) :
              LET value == SubSeq(own.stream, own.pos + 1, own.pos + n)
                  dec   == decode(calls.locals[Slot(c)].pending, value)
                  r     == ReadNdjson("raw", LocalsOf(c), dec.text)
                  decA  == decode(own.alone.pending, value)
                  rA    == ReadNdjson("raw", own.alone.d, decA.text)
              IN  StoreLocals(c, dec.pending, r.d,
                              [own EXCEPT !.pos = own.pos + n,
                                          !.alone = [pending |-> decA.pending, d |-> rA.d]])
    /\ UNCHANGED <<serviceVars, router, chat>>

\* reader.read() of invocation c answers done = true: tail, finally, return
PairReadEnd ==
    /\ call = "pair"
    /\ \E c \in PairCalls :
         LET own == calls.own[c]
             d   == TailNdjson(LocalsOf(c))
         IN  /\ own.pc = "reading"
             /\ own.pos = Len(own.stream)
             /\ StoreLocals(c, calls.locals[Slot(c)].pending, d,
                            [own EXCEPT !.pc = "done",
                                        !.released = @ + 1,
                                        !.result = Resolved(d.fullResponse),
                                        !.alone.d = TailNdjson(@)])
    /\ UNCHANGED <<serviceVars, router, chat>>

\* reader.read() of invocation c rejects: catch, finally, rethrow
PairReadFail ==
    /\ call = "pair"
    /\ calls.readFailures < MaxReadFailures
    /\ \E c \in PairCalls :
         /\ calls.own[c].pc = "reading"
         /\ calls' = [calls EXCEPT !.own[c].pc = "done",
                                   !.own[c].released = @ + 1,
                                   !.own[c].result = Rejected,
                                   !.readFailures = @ + 1]
    /\ UNCHANGED <<serviceVars, router, chat>>

NextPair ==
    \/ PairFetch
    \/ PairRead
    \/ PairReadEnd
    \/ PairReadFail

SpecPair == InitPair /\ [][NextPair]_vars

\* invocation c is between its fetch and its return
PairReading(c) == calls.own[c].pc = "reading"

\* C20: whatever the interleaving of two concurrent calls, each has delivered
\* the chunks and returns the string of the same reads by a call running alone,
\* and its buffer, accumulator and decoder hold what they hold in that call
C20_ConcurrentCallsIndependent ==
    call = "pair" =>
        \A c \in PairCalls :
            LET own == calls.own[c] IN
            /\ own.delivered = own.alone.d.delivered
            /\ own.warnings = own.alone.d.warnings
            /\ PairReading(c) =>
                   /\ calls.locals[Slot(c)].buffer = own.alone.d.buffer
                   /\ calls.locals[Slot(c)].fullResponse = own.alone.d.fullResponse
                   /\ calls.locals[Slot(c)].pending = own.alone.pending
            /\ (own.pc = "done" /\ own.result.status = "resolved") =>
                   own.result.value = own.alone.d.fullResponse

\* both calls are in the middle of their streams, each with a partial line in
\* its buffer and a chunk delivered, and the streams differ
C20_Witness ==
    /\ call = "pair"
    /\ \A c \in PairCalls :
         /\ PairReading(c)
         /\ calls.own[c].pos > 0
         /\ calls.own[c].pos < Len(calls.own[c].stream)
         /\ calls.locals[Slot(c)].buffer # <<>>
         /\ calls.own[c].delivered # <<>>
    /\ calls.own[1].stream # calls.own[2].stream
    /\ calls.locals[Slot(1)].buffer # calls.locals[Slot(2)].buffer

-----------------------------------------------------------------------------
(* A stream read beside the same stream without its no-op units            *)

\* most framing units of a body that holds a unit with no known content field
MaxUnitsTwin == 3

\* the variants whose decoder looks for a content field
TwinVariants == {"chat", "sse"}

\* a unit that parses as JSON and has none of the known content fields
NoopUnit(v) ==
    IF v = "sse" THEN Data(<<"{", "x", "}">>) ELSE Line(<<"{", "x", "}">>)

TwinUnits(v) == IF v = "sse" THEN SseUnits \cup {NoopUnit(v)} ELSE NdjsonUnits

\* for every byte of the body, whether it belongs to a no-op unit
RECURSIVE AbsentMask(_, _)
AbsentMask(v, units) ==
    IF units = <<>> THEN <<>>
    ELSE [i \in 1..Len(Head(units)) |-> Head(units) = NoopUnit(v)]
             \o AbsentMask(v, Tail(units))

\* a no-op unit is a unit of its own only when it starts at the start of a line
StartsLine(u, i) == i = 1 \/ u[i - 1][Len(u[i - 1])] = NL

\* the bodies that hold at least one no-op unit, with their masks
TwinBodies(v) ==
    { [bytes |-> Flatten(us), absent |-> AbsentMask(v, us)] :
        us \in { u \in UNION { [1..k -> TwinUnits(v)] : k \in 1..MaxUnitsTwin } :
                   /\ \E i \in 1..Len(u) : u[i] = NoopUnit(v)
                   /\ \A i \in 1..Len(u) : u[i] = NoopUnit(v) => StartsLine(u, i) } }

\* the bytes of value that do not belong to a no-op unit
RECURSIVE Present(_, _)
Present(value, absent) ==
    IF value = <<>> THEN <<>>
    ELSE (IF Head(absent) THEN <<>> ELSE <<Head(value)>>)
             \o Present(Tail(value), Tail(absent))

FreshReader == [pending |-> <<>>, d |-> DecoderState(<<>>, <<>>, <<>>, 0, -1)]

InitTwin ==
    /\ call = "twin"
    /\ variant \in TwinVariants
    /\ pc = "idle"
    /\ attempt = 1
    /\ requests = <<>>
    /\ stream = <<>>
    /\ pos = 0
    /\ pending = <<>>
    /\ buffer = <<>>
    /\ fullResponse = <<>>
    /\ delivered = <<>>
    /\ warnings = 0
    /\ released = 0
    /\ result = Pending
    /\ lastScan = NoScan
    /\ sentinelAt = -1
    /\ failedAt = -1
    /\ readFailures = 0
    /\ mockPos = 0
    /\ responseOk = TRUE
    /\ router = NoRouter
    /\ calls = [pc |-> "fetch", bytes |-> <<>>, absent |-> <<>>, pos |-> 0,
                real |-> FreshReader, twin |-> FreshReader,
                result |-> Pending, twinResult |-> Pending]
    /\ chat = NoChat

\* one read iteration of a decoder on the bytes value; no iteration without bytes
TwinStep(r, value) ==
    IF value = <<>> THEN r
    ELSE LET dec == decode(r.pending, value)
         IN  [pending |-> dec.pending,
              d |-> ReadIteration(variant, 1, r.d, dec.text).d]

\* the response arrives
TwinFetch ==
    /\ call = "twin"
    /\ calls.pc = "fetch"
    /\ \E body \in TwinBodies(variant) :
         calls' = [calls EXCEPT !.pc = "reading", !.bytes = body.bytes,
                                !.absent = body.absent]
    /\ UNCHANGED <<serviceVars, router, chat>>

\* reader.read() returns the next bytes; the twin gets them without the no-op bytes
TwinRead ==
    /\ call = "twin"
    /\ calls.pc = "reading"
    /\ calls.pos < Len(calls.bytes)
    /\ \E n \in 1..(Len(calls.bytes) - calls.pos) :
         LET value  == SubSeq(calls.bytes, calls.pos + 1, calls.pos + n)
             absent == SubSeq(calls.absent, calls.pos + 1, calls.pos + n)
         IN  calls' = [calls EXCEPT !.pos = @ + n,
                                    !.real = TwinStep(@, value),
                                    !.twin = TwinStep(@, Present(value, absent))]
    /\ UNCHANGED <<serviceVars, router, chat>>

\* reader.read() answers done = true in both
TwinReadEnd ==
    /\ call = "twin"
    /\ calls.pc = "reading"
    /\ calls.pos = Len(calls.bytes)
    /\ LET dr == EndOfStream(variant, 1, calls.real.d)
           dt == EndOfStream(variant, 1, calls.twin.d)
       IN  calls' = [calls EXCEPT !.pc = "done",
                                  !.real.d = dr, !.twin.d = dt,
                                  !.result = Resolved(ReturnValue(variant, dr.fullResponse)),
                                  !.twinResult = Resolved(ReturnValue(variant, dt.fullResponse))]
    /\ UNCHANGED <<serviceVars, router, chat>>

NextTwin ==
    \/ TwinFetch
    \/ TwinRead
    \/ TwinReadEnd

SpecTwin == InitTwin /\ [][NextTwin]_vars

\* C21: a unit that parses as JSON and has none of the known content fields is
\* a no-op: the chunks delivered so far and the string returned are those of the
\* same reads of the same stream without that unit
C21_NoopUnitIgnored ==
    call = "twin" =>
        /\ calls.real.d.delivered = calls.twin.d.delivered
        /\ calls.result = calls.twinResult

-----------------------------------------------------------------------------
(* Further claims about one generateCompletion call                        *)

\* the text a variant takes from a parsed object: message.content, or response
KnownContent(v, parsed) ==
    IF parsed.tag = (IF v = "generate" THEN "r" ELSE "m") THEN parsed.content ELSE <<>>

\* the stream ends without a read error
EndsNormally == pc = "reading" /\ pc' = "done" /\ readFailures' = readFailures

\* the buffer left at end of stream is a complete JSON object
ParsableTail == Trim(buffer) # <<>> /\ CanParse(Trim(buffer))

\* C22: at end of stream a trailing buffer that holds a complete JSON object is
\* parsed, delivered to onProgress as the next chunk and included in the
\* returned string, in the raw decoder and in the native chat and generate variants
C22_TailParsedAndDelivered ==
    [][ (Streaming /\ variant \in {"raw", "chat", "generate"} /\ EndsNormally /\ ParsableTail)
        => /\ Len(delivered') > Len(delivered)
           /\ delivered'[Len(delivered) + 1].content = Parse(Trim(buffer)).content
           /\ result' = Resolved(fullResponse
                                 \o KnownContent(variant, Parse(Trim(buffer)))) ]_vars


\* the newline-terminated lines of a text that parse as JSON
ParsableLines(text) ==
    SelectSeq(SplitLines(text, 0), LAMBDA l : Trim(l) # <<>> /\ CanParse(Trim(l)))

\* C23: between the read iterations of the NDJSON decoder the buffer holds no
\* newline-terminated line that parses as JSON
C23_OnlyPartialUnitRetained ==
    (Streaming /\ variant = "raw" /\ pc = "reading") => ParsableLines(buffer) = <<>>


\* the positions of the delivered chunks that carry done = true
DoneChunks == { i \in 1..Len(delivered) : delivered[i].done }

\* C24: a call of the native chat or generate variant that resolves has
\* delivered exactly one chunk with done = true, and it is the last chunk
C24_ExactlyOneDoneChunk ==
    (Streaming /\ variant \in {"chat", "generate"} /\ ResolvedNow) =>
        DoneChunks = {Len(delivered)}


\* a call of the multi-endpoint variant, with or without onProgress
MultiEndpoint ==
    call \in {"generateCompletion", "generateCompletionNoProgress"} /\ variant = "multi"

\* C25: the multi-endpoint variant requests the endpoints in the order of
\* endpointsToTry, at most four per call, and each request is made while the
\* call has no result
C25_EndpointsInOrder ==
    /\ [](MultiEndpoint =>
            /\ Len(requests) <= 4
            /\ requests = SubSeq(endpointsToTry, 1, Len(requests)))
    /\ [][ (MultiEndpoint /\ requests' # requests) =>
             /\ result = Pending
             /\ pc # "done"
             /\ Len(requests) < 4
             /\ requests' = Append(requests, endpointsToTry[Len(requests) + 1]) ]_vars

\* the second endpoint was requested after the first gave no result, it gave
\* one, and the call is over
C25_Witness ==
    /\ MultiEndpoint
    /\ requests = SubSeq(endpointsToTry, 1, 2)
    /\ pc = "done"
    /\ result = Resolved(AnswerContent)


\* C26: in the streaming multi-endpoint variant the chunks an attempt delivered
\* before its stream failed are not followed by chunks of a later attempt or by
\* mock chunks, so all chunks of a call come from one attempt
C26_ChunksFromOneAttempt ==
    (Streaming /\ variant = "multi" /\ failedAt > 0) => Len(delivered) = failedAt


TagsEndpoint == <<"api", "tags">>
ModelsEndpoint == <<"v1", "models">>

\* getModels of the iteration that rethrows the first error
Rethrowing == call = "getModels" /\ variant = "rethrow"

\* C27: getModels with the alternate-endpoint fallback requests /v1/models only
\* from the catch block of the failed /api/tags request, and when the fallback
\* fails too it rejects with the error of the /api/tags request
C27_OriginalErrorRethrown ==
    /\ [](Rethrowing =>
            /\ Len(requests) <= 2
            /\ (pc = "done" /\ Len(requests) = 2 /\ stream = <<"error">>) =>
                   result = RejectedWith(TagsError))
    /\ [][ (Rethrowing /\ requests' # requests /\ requests # <<>>) =>
             /\ requests = <<TagsEndpoint>>
             /\ stream = <<"error">>
             /\ requests' = <<TagsEndpoint, ModelsEndpoint>> ]_vars

\* both requests failed and the call rejected with the first error
C27_Witness ==
    /\ Rethrowing
    /\ requests = <<TagsEndpoint, ModelsEndpoint>>
    /\ stream = <<"error">>
    /\ pc = "done"
    /\ result = RejectedWith(TagsError)


\* C28: with base path /api, the exact-match and the rule-based /api proxy
\* forward the list-models request /api/tags as /api/tags
C28_TagsForwarded ==
    (ViaApi /\ router.server \in {"exact", "rules"} /\ router.apiBasePath = ApiPrefix
            /\ router.request.path = ApiTags) =>
        /\ router.outbound.sent
        /\ router.outbound.path = ApiTags

-----------------------------------------------------------------------------
(* Termination of the NDJSON and the SSE decoder                           *)

\* await reader.read() answers with bytes: the steps that move pos while the
\* stream is being read are exactly the Read steps, and Read is enabled
\* exactly when bytes are left
ReaderAnswers ==
    /\ call = "generateCompletion"
    /\ pc = "reading"
    /\ \E n \in 1..(Len(stream) - pos) : pos' = pos + n

\* a streaming call of the raw NDJSON or of the SSE iteration
InitLive ==
    /\ Init
    /\ call = "generateCompletion"
    /\ variant \in {"raw", "sse"}

NextLive ==
    \/ FetchFails
    \/ FetchBody
    \/ Read
    \/ ReadEnd
    \/ ReadFail

\* the request is answered, and reader.read() settles every time it is awaited:
\* it returns the next chunk while there is one and done = true after the last;
\* a read error may happen but need not
SpecLive ==
    /\ InitLive
    /\ [][NextLive]_vars
    /\ WF_vars(FetchFails \/ FetchBody)
    /\ WF_pos(ReaderAnswers)
    /\ WF_vars(ReadEnd)

\* C29: a streaming call of the NDJSON or the SSE decoder whose stream ends or
\* fails eventually resolves or rejects
C29_EventuallySettles ==
    (Streaming /\ variant \in {"raw", "sse"} /\ pc # "done") ~> Settled

\* a call settled after a stream of several reads whose scans delivered chunks
C29_Witness ==
    /\ Streaming
    /\ variant \in {"raw", "sse"}
    /\ Settled
    /\ pos = Len(stream)
    /\ Len(delivered) >= 2
    /\ released = 1


------------------------------------------------------------------------------
(* The reader lock                                                         *)

\* a step that leaves the try block around the read loop
LeavesReadLoop == Streaming /\ pc = "reading" /\ pc' # "reading"

\* C30: every step that leaves the read loop of an acquired reader, at the end
\* of the stream, with an unparsable tail or on a read error, calls
\* releaseLock exactly once, no other step calls it, and an acquired reader
\* has not been released while it is read
C30_ReleasedExactlyOnce ==
    /\ [](Streaming =>
            /\ released <= Len(requests)
            /\ (pc = "reading" => released < Len(requests))
            /\ (variant # "multi" => released <= 1))
    /\ [][Streaming =>
            released' = released + (IF LeavesReadLoop THEN 1 ELSE 0)]_vars

\* the forwarding iteration returned after a stream that ended in an
\* unparsable tail, one release behind it
C30_Witness ==
    /\ Streaming
    /\ variant = "raw"
    /\ ResolvedNow
    /\ pos = Len(stream)
    /\ Trim(buffer) # <<>>
    /\ ~CanParse(Trim(buffer))
    /\ warnings >= 1
    /\ released = 1


------------------------------------------------------------------------------
(* Repeated delivery                                                       *)

\* the objects found in a text at any position, in order of position: a piece
\* that parses holds no brace inside, so two such pieces never overlap
RECURSIVE ObjectsFrom(_, _)
ObjectsFrom(text, i) ==
    IF i > Len(text) THEN <<>>
    ELSE LET ends == { j \in i..Len(text) : CanParse(SubSeq(text, i, j)) }
             here == IF ends = {} THEN <<>>
                     ELSE <<Parse(SubSeq(text, i, CHOOSE j \in ends : \A k \in ends : j <= k))>>
         IN  here \o ObjectsFrom(text, i + 1)

\* s is t with some elements left out
RECURSIVE IsSubsequence(_, _)
IsSubsequence(s, t) ==
    IF s = <<>> THEN TRUE
    ELSE IF t = <<>> THEN FALSE
    ELSE IF Head(s) = Head(t) THEN IsSubsequence(Tail(s), Tail(t))
    ELSE IsSubsequence(s, Tail(t))

------------------------------------------------------------------------------
(* The Chat component: tabs and a streamed generation                      *)

\* tabs the model lets the list grow to
MaxTabs == 3
\* largest value Date.now() returns
MaxClock == 3
\* onProgress calls of one generation
MaxDeltas == 2
\* messages a tab holds when handleSubmit is still offered
MaxMessages == 1

\* '' as an id
NoId == -1

Message(role, content) == [role |-> role, content |-> content]
Tab(id, messages) == [id |-> id, messages |-> messages]

\* const getDefaultTab = () => ({ id: `tab-${Date.now()}`, name: 'Chat 1', messages: [] })
getDefaultTab(t) == Tab(t, <<>>)

\* no handleSubmit is running
NoRun == [phase |-> "idle"]

\* the text typed into the input
Typed == <<"u">>

\* message.content of the objects handed to onProgress, '' for an object without it
Deltas == { <<>>, <<"h">> }

\* tabs.map(f)
MapTabs(tabs, f(_)) == [i \in 1..Len(tabs) |-> f(tabs[i])]

\* tabs.filter(tab => tab.id !== tabId)
WithoutId(tabs, tabId) == SelectSeq(tabs, LAMBDA tab : tab.id # tabId)

\* tabs.some(tab => tab.id === id)
TabExists(tabs, id) == \E i \in 1..Len(tabs) : tabs[i].id = id

\* tabs.findIndex(tab => tab.id === tabId), 0-based, -1 when there is none
FindIndex(tabs, tabId) ==
    LET hits == { i \in 1..Len(tabs) : tabs[i].id = tabId }
    IN  IF hits = {} THEN -1 ELSE (CHOOSE i \in hits : \A j \in hits : i <= j) - 1

\* const activeTab = tabs.find(tab => tab.id === activeTabId) || tabs[0];
\* const messages = activeTab?.messages || []
MessagesOf(tabs, activeTabId) ==
    IF TabExists(tabs, activeTabId) THEN tabs[FindIndex(tabs, activeTabId) + 1].messages
    ELSE IF tabs # <<>> THEN tabs[1].messages
    ELSE <<>>

\* what localStorage holds when the component is constructed: nothing, or the
\* tabs and the active id an earlier session saved
StoredTabs ==
    { <<>>,
      <<Tab(0, <<>>)>>,
      <<Tab(0, <<Message("user", Typed), Message("assistant", <<"h">>)>>)>> }
Stored ==
    { [saved |-> FALSE, tabs |-> <<>>, active |-> NoId] }
        \cup [saved : {TRUE}, tabs : StoredTabs, active : {0, 1}]

\* useState(loadFromLocalStorage(STORAGE_KEY_TABS, [getDefaultTab()]))
LoadTabs(stored, t) == IF stored.saved THEN stored.tabs ELSE <<getDefaultTab(t)>>

\* useState(loadFromLocalStorage(STORAGE_KEY_ACTIVE_TAB, tabs[0]?.id || ''))
LoadActive(stored, tabs) ==
    IF stored.saved THEN stored.active
    ELSE IF tabs # <<>> THEN tabs[1].id ELSE NoId

\* the mount effect: one tab at least, and activeTabId on an existing tab
MountEffect(tabs, activeTabId, t) ==
    IF Len(tabs) = 0
    THEN [tabs |-> <<getDefaultTab(t)>>, activeTabId |-> t]
    ELSE IF ~TabExists(tabs, activeTabId)
         THEN [tabs |-> tabs, activeTabId |-> tabs[1].id]
         ELSE [tabs |-> tabs, activeTabId |-> activeTabId]


\* the component after its first render and its mount effect, at time t
InitChat ==
    /\ call = "chat"
    /\ variant = "none"
    /\ pc = "idle"
    /\ attempt = 1
    /\ requests = <<>>
    /\ stream = <<>>
    /\ pos = 0
    /\ pending = <<>>
    /\ buffer = <<>>
    /\ fullResponse = <<>>
    /\ delivered = <<>>
    /\ warnings = 0
    /\ released = 0
    /\ result = Pending
    /\ lastScan = NoScan
    /\ sentinelAt = -1
    /\ failedAt = -1
    /\ readFailures = 0
    /\ mockPos = 0
    /\ responseOk = TRUE
    /\ router = NoRouter
    /\ calls = NoCalls
    /\ \E stored \in Stored, t \in 1..1 :
         LET tabs    == LoadTabs(stored, t)
             mounted == MountEffect(tabs, LoadActive(stored, tabs), t)
         IN  chat = [phase |-> "mounted", tabs |-> mounted.tabs,
                     activeTabId |-> mounted.activeTabId, isLoading |-> FALSE,
                     now |-> t, run |-> NoRun]

\* const addNewTab = () => { ... }, Date.now() answering t
addNewTab ==
    /\ chat.phase = "mounted"
    /\ Len(chat.tabs) < MaxTabs
    /\ \E t \in chat.now..MaxClock :
         chat' = [chat EXCEPT !.tabs = Append(@, Tab(t, <<>>)),
                              !.activeTabId = t,
                              !.now = t]
    /\ UNCHANGED <<serviceVars, router, calls>>

\* the tab activated when the active tab is deleted; no tab at all makes
\* newTabs[newActiveIndex].id throw after setTabs(newTabs)
ActiveAfterDelete(tabs, activeTabId, tabId) ==
    LET tabIndex       == FindIndex(tabs, tabId)
        newTabs        == WithoutId(tabs, tabId)
        newActiveIndex == IF tabIndex - 1 > 0 THEN tabIndex - 1 ELSE 0
    IN  IF activeTabId = tabId /\ newActiveIndex < Len(newTabs)
        THEN newTabs[newActiveIndex + 1].id
        ELSE activeTabId

\* const deleteTab = (tabId: string) => { ... }, from the close button of tab i
deleteTab ==
    /\ chat.phase = "mounted"
    /\ Len(chat.tabs) > 1
    /\ \E i \in 1..Len(chat.tabs) :
         LET tabId == chat.tabs[i].id IN
         chat' = [chat EXCEPT !.tabs = WithoutId(@, tabId),
                              !.activeTabId = ActiveAfterDelete(chat.tabs, @, tabId)]
    /\ UNCHANGED <<serviceVars, router, calls>>

\* const clearAllTabs = () => { if (confirm(...)) { ... } }, confirmed at time t
clearAllTabs ==
    /\ chat.phase = "mounted"
    /\ \E t \in chat.now..MaxClock :
         chat' = [chat EXCEPT !.tabs = <<getDefaultTab(t)>>,
                              !.activeTabId = t,
                              !.now = t]
    /\ UNCHANGED <<serviceVars, router, calls>>

\* onClick={() => setActiveTabId(tab.id)} of the button of tab i
setActiveTabId ==
    /\ chat.phase = "mounted"
    /\ \E i \in 1..Len(chat.tabs) :
         /\ chat.tabs[i].id # chat.activeTabId
         /\ chat' = [chat EXCEPT !.activeTabId = chat.tabs[i].id]
    /\ UNCHANGED <<serviceVars, router, calls>>

\* tabs.map(tab => tab.id === activeTabId ? { ...tab, messages: newMessages } : tab)
updateMessages(tabs, activeTabId, newMessages) ==
    MapTabs(tabs, LAMBDA tab : IF tab.id = activeTabId
                               THEN [tab EXCEPT !.messages = newMessages] ELSE tab)

\* the updater handleSubmit passes: lastMessage.content = assistantMessage when
\* the last message is the assistant's, a new assistant message otherwise
updater(prev, assistantMessage) ==
    IF prev # <<>> /\ prev[Len(prev)].role = "assistant"
    THEN [prev EXCEPT ![Len(prev)].content = assistantMessage]
    ELSE Append(prev, Message("assistant", assistantMessage))

\* tabs.map(tab => tab.id === activeTabId
\*                   ? { ...tab, messages: updater(tab.messages || []) } : tab)
updateActiveTabMessages(tabs, activeTabId, assistantMessage) ==
    MapTabs(tabs, LAMBDA tab : IF tab.id = activeTabId
                               THEN [tab EXCEPT !.messages = updater(@, assistantMessage)]
                               ELSE tab)

\* the tabs of the render handleSubmit ran in after the updater wrote into the
\* last message object of a list it did not copy
WrittenInPlace(tabs, activeTabId, assistantMessage) ==
    MapTabs(tabs, LAMBDA tab :
        IF /\ tab.id = activeTabId
           /\ tab.messages # <<>>
           /\ tab.messages[Len(tab.messages)].role = "assistant"
        THEN [tab EXCEPT !.messages = updater(@, assistantMessage)]
        ELSE tab)

\* handleSubmit up to the await: the user message, setIsLoading(true), the request
handleSubmit ==
    /\ chat.phase = "mounted"
    /\ ~chat.isLoading
    /\ LET messages    == MessagesOf(chat.tabs, chat.activeTabId)
           userMessage == Message("user", Typed)
       IN  /\ Len(messages) <= MaxMessages
           /\ chat' = [chat EXCEPT
                  !.tabs = updateMessages(@, chat.activeTabId, Append(messages, userMessage)),
                  !.isLoading = TRUE,
                  !.run = [phase |-> "streaming", tabs |-> chat.tabs,
                           activeTabId |-> chat.activeTabId,
                           sent |-> Append(messages, userMessage),
                           assistantMessage |-> <<>>, deltas |-> <<>>]]
    /\ UNCHANGED <<serviceVars, router, calls>>

\* the onProgress callback of handleSubmit, called with an object whose
\* message.content is delta
onProgress ==
    /\ chat.phase = "mounted"
    /\ chat.run.phase = "streaming"
    /\ Len(chat.run.deltas) < MaxDeltas
    /\ \E delta \in Deltas :
         LET assistantMessage == chat.run.assistantMessage \o delta IN
         IF delta = <<>>
         THEN chat' = [chat EXCEPT !.run.deltas = Append(@, delta)]
         ELSE chat' = [chat EXCEPT
                  !.tabs = updateActiveTabMessages(chat.run.tabs, chat.run.activeTabId,
                                                   assistantMessage),
                  !.run.tabs = WrittenInPlace(@, chat.run.activeTabId, assistantMessage),
                  !.run.assistantMessage = assistantMessage,
                  !.run.deltas = Append(@, delta)]
    /\ UNCHANGED <<serviceVars, router, calls>>

\* generateCompletion settles: finally { setIsLoading(false) }
handleSubmitFinally ==
    /\ chat.phase = "mounted"
    /\ chat.run.phase = "streaming"
    /\ chat' = [chat EXCEPT !.isLoading = FALSE, !.run = NoRun]
    /\ UNCHANGED <<serviceVars, router, calls>>

\* the tab operations alone
NextTabs ==
    \/ addNewTab
    \/ deleteTab
    \/ clearAllTabs
    \/ setActiveTabId

SpecTabs == InitChat /\ [][NextTabs]_vars

\* the tab operations beside a generation
NextChat ==
    \/ addNewTab
    \/ deleteTab
    \/ clearAllTabs
    \/ setActiveTabId
    \/ handleSubmit
    \/ onProgress
    \/ handleSubmitFinally

SpecChat == InitChat /\ [][NextChat]_vars



------------------------------------------------------------------------------
(* Properties of the Chat component                                        *)

\* the ids of a tab list, in list order
IdsOf(tabs) == [i \in 1..Len(tabs) |-> tabs[i].id]

\* C32: after any sequence of addNewTab, deleteTab and clearAllTabs the tab
\* list is never empty
C32_TabListNeverEmpty == chat.tabs # <<>>

\* a step of deleteTab that removes the active tab
DeletesActiveTab ==
    /\ Len(chat'.tabs) < Len(chat.tabs)
    /\ chat'.tabs = WithoutId(chat.tabs, chat.activeTabId)

\* C33: activeTabId is always the id of a tab of the list, and deleting the
\* active tab activates its left neighbour, or the first remaining tab when it
\* has none
C33_ActiveTabPresent ==
    /\ [](\E i \in 1..Len(chat.tabs) : chat.tabs[i].id = chat.activeTabId)
    /\ [][DeletesActiveTab =>
            LET tabIndex == FindIndex(chat.tabs, chat.activeTabId) IN
            /\ chat'.tabs # <<>>
            /\ chat'.activeTabId = IF tabIndex > 0 THEN chat.tabs[tabIndex].id
                                   ELSE chat'.tabs[1].id]_vars

\* the step in which a generation that streamed some content completes, no
\* tab having been added, deleted or cleared since the submission
StreamedGenerationCompletes ==
    /\ chat.run.phase = "streaming"
    /\ chat'.run.phase = "idle"
    /\ chat.run.assistantMessage # <<>>
    /\ IdsOf(chat.tabs) = IdsOf(chat.run.tabs)

\* C34: when a streamed generation completes, the messages of the submitting
\* tab are the list before submission, the new user message, and one assistant
\* message holding the concatenated deltas
C34_UserThenAssistantAppended ==
    [][StreamedGenerationCompletes =>
          MessagesOf(chat.tabs, chat.run.activeTabId)
              = Append(chat.run.sent,
                       Message("assistant", Flatten(chat.run.deltas)))]_vars

\* a chunk callback of the running generation, or its completion
ChunkOrCompletion ==
    /\ chat.run.phase = "streaming"
    /\ \/ chat'.run.phase = "idle"
       \/ /\ chat'.run.phase = "streaming"
          /\ Len(chat'.run.deltas) = Len(chat.run.deltas) + 1

\* C35: a chunk callback and the completion of a generation leave the tabs
\* that exist as they are: a tab added while chunks arrive stays, a tab
\* deleted meanwhile stays away
C35_TabOperationsKept ==
    [][ChunkOrCompletion => IdsOf(chat'.tabs) = IdsOf(chat.tabs)]_vars

====
